---- MODULE Spec2Model ----
(***************************************************************************)
(* Model of the bensor bencode codec: the lexer (src/src/lexer.rs), the    *)
(* recursive-descent parser and the serializer (src/src/parser.rs).        *)
(*                                                                         *)
(* A byte is an integer 0..255.  A Rust `char` is modelled by its code     *)
(* point and a Rust `String` by the sequence of its code points, so that   *)
(* the two conversions the code performs, `byte as char` (lexer) and       *)
(* `String::into_bytes` / `as_bytes` (UTF-8), are modelled by what they do.*)
(***************************************************************************)
EXTENDS Integers, Sequences, FiniteSets, TLC

(***************************************************************************)
(* Bounds of the model.                                                    *)
(***************************************************************************)
MaxBufLen == 4      \* longest exhaustively enumerated input buffer
MaxTokens == 6      \* longest exhaustively enumerated token sequence
MaxNodes == 4       \* largest value tree (number of nodes) that is encoded

(***************************************************************************)
(* Byte constants of the wire format.                                      *)
(***************************************************************************)
DICTIONARY_BYTE == 100      \* 'd'
LIST_BYTE == 108            \* 'l'
END_BYTE == 101             \* 'e'
INTEGER_BYTE == 105         \* 'i'
SLICE_RANGE_START == 48     \* '0'
SLICE_RANGE_END == 57       \* '9'
STRING_DELIMETER == 58      \* ':'
MinusSign == 45             \* '-'
PlusSign == 43              \* '+'

\* i32::MAX and i32::MIN, the range of lexer::Token::Integer.
I32Max == 2147483647
I32Min == (-I32Max) - 1

(***************************************************************************)
(* Generic sequence helpers.                                               *)
(***************************************************************************)
Min(S) == CHOOSE x \in S : \A y \in S : x <= y

\* Vec::into_iter().rev().collect()
Reverse(s) == [i \in 1..Len(s) |-> s[Len(s) + 1 - i]]

\* Rust slice[from..to] with 0-based, end-exclusive bounds (in range).
Slice(s, from, to) == SubSeq(s, from + 1, to)

RECURSIVE Flatten(_)
Flatten(ss) == IF ss = <<>> THEN <<>> ELSE Head(ss) \o Flatten(Tail(ss))

(***************************************************************************)
(* format!("{}", n): the decimal rendering of an integer, as bytes/chars.  *)
(* Negative numbers are rendered digit by digit without negating n, so     *)
(* that i32::MIN stays inside the checker's integer range.                 *)
(***************************************************************************)
RECURSIVE DecimalNat(_)
DecimalNat(n) ==
    IF n < 10 THEN <<SLICE_RANGE_START + n>>
    ELSE Append(DecimalNat(n \div 10), SLICE_RANGE_START + (n % 10))

RECURSIVE DecimalNeg(_)
DecimalNeg(n) ==
    LET r == (10 - (n % 10)) % 10
        q == (n + r) \div 10
    IN  IF q = 0 THEN <<SLICE_RANGE_START + r>>
        ELSE Append(DecimalNeg(q), SLICE_RANGE_START + r)

\* a rendering that loses the sign of a negative number
Decimal_unsigned(n) == IF n >= 0 THEN DecimalNat(n) ELSE DecimalNeg(n)

Decimal(n) == IF n >= 0 THEN DecimalNat(n) ELSE <<MinusSign>> \o DecimalNeg(n)

\* lexer.rs str_len: number of chars of the Display rendering.
str_len(d) == Len(Decimal(d))

(***************************************************************************)
(* String <-> bytes.  Utf8 is String::into_bytes / as_bytes for code       *)
(* points below 0x800; LatinChars is `bytes.map(|c| c as char).collect()`. *)
(***************************************************************************)
Utf8Char(c) ==
    IF c < 128 THEN <<c>> ELSE <<192 + (c \div 64), 128 + (c % 64)>>

Utf8(str) == Flatten([i \in 1..Len(str) |-> Utf8Char(str[i])])

LatinChars(bytes) == [i \in 1..Len(bytes) |-> bytes[i]]

(***************************************************************************)
(* core::num <i32 as FromStr>::from_str and <usize as FromStr>::from_str,  *)
(* as called by read_int / read_len through str::parse.  Both accept a     *)
(* leading '+', only the signed one accepts '-'; a sign alone, an empty    *)
(* string and any non-digit are errors; arithmetic is checked.             *)
(***************************************************************************)
IsDigit(c) == c >= SLICE_RANGE_START /\ c <= SLICE_RANGE_END

ParseFail == [ok |-> FALSE, val |-> 0]

RECURSIVE AccPos(_, _, _)
AccPos(digits, acc, max) ==
    IF digits = <<>> THEN [ok |-> TRUE, val |-> acc]
    ELSE LET c == Head(digits)
             d == c - SLICE_RANGE_START
         IN  IF ~IsDigit(c) THEN ParseFail
             ELSE IF max >= 0 /\ acc > (max - d) \div 10 THEN ParseFail
             ELSE AccPos(Tail(digits), acc * 10 + d, max)

RECURSIVE AccNeg(_, _)
AccNeg(digits, acc) ==
    IF digits = <<>> THEN [ok |-> TRUE, val |-> acc]
    ELSE LET c == Head(digits)
             d == c - SLICE_RANGE_START
             lim == (I32Max - (IF d = 0 THEN 0 ELSE d - 1)) \div 10
         IN  IF ~IsDigit(c) THEN ParseFail
             ELSE IF (-acc) > lim THEN ParseFail
             ELSE AccNeg(Tail(digits), acc * 10 - d)

from_str_i32(s) ==
    IF s = <<>> THEN ParseFail
    ELSE IF Len(s) = 1 /\ Head(s) \in {PlusSign, MinusSign} THEN ParseFail
    ELSE IF Head(s) = PlusSign THEN AccPos(Tail(s), 0, I32Max)
    ELSE IF Head(s) = MinusSign THEN AccNeg(Tail(s), 0)
    ELSE AccPos(s, 0, I32Max)

\* usize is 64 bits wide; every length prefix of the bounded inputs is far
\* below 2^64, so the overflow branch of the unsigned parse is not modelled
\* (max = -1 switches the check off).
from_str_usize(s) ==
    IF s = <<>> THEN ParseFail
    ELSE IF Len(s) = 1 /\ Head(s) \in {PlusSign, MinusSign} THEN ParseFail
    ELSE IF Head(s) = PlusSign THEN AccPos(Tail(s), 0, -1)
    ELSE AccPos(s, 0, -1)

(***************************************************************************)
(* lexer.rs                                                                *)
(***************************************************************************)
TokDictionary == [type |-> "Dictionary"]
TokList == [type |-> "List"]
TokEnd == [type |-> "End"]
TokInteger(n) == [type |-> "Integer", num |-> n]
TokByteString(s) == [type |-> "ByteString", str |-> s]
NoToken == [type |-> "None"]

ErrReadInt == [name |-> "ReadInt"]
ErrReadLen == [name |-> "ReadLen"]
ErrReadByteString == [name |-> "ReadByteString"]
ErrReadFirstByte(c) == [name |-> "ReadFirstByte", c |-> c]
ErrEmptySlice == [name |-> "EmptySlice"]
NoError == [name |-> "None"]

LexOk(t) == [kind |-> "Ok", token |-> t, err |-> NoError]
LexErr(e) == [kind |-> "Err", token |-> NoToken, err |-> e]
LexPanic == [kind |-> "Panic", token |-> NoToken, err |-> NoError]

\* Token::shift
shift(token) ==
    CASE token.type \in {"Dictionary", "List", "End"} -> 1
      [] token.type = "Integer" -> 1 + str_len(token.num) + 1
      [] token.type = "ByteString" ->
            LET size == Len(Utf8(token.str))
            IN  str_len(size) + size + 1

\* take_while(|c| c != end)
read_until(slice, end) ==
    LET hits == {i \in 1..Len(slice) : slice[i] = end}
    IN  IF hits = {} THEN slice ELSE SubSeq(slice, 1, Min(hits) - 1)

read_int(slice) ==
    LET r == from_str_i32(LatinChars(read_until(slice, END_BYTE)))
    IN  IF r.ok THEN [ok |-> TRUE, val |-> r.val, err |-> NoError]
        ELSE [ok |-> FALSE, val |-> 0, err |-> ErrReadInt]

read_len(slice) ==
    LET r == from_str_usize(LatinChars(read_until(slice, STRING_DELIMETER)))
    IN  IF r.ok THEN [ok |-> TRUE, val |-> r.val, err |-> NoError]
        ELSE [ok |-> FALSE, val |-> 0, err |-> ErrReadLen]

\* The result is a LexOk/LexErr/LexPanic record whose token is the string.
read_byte_string(slice) ==
    LET l == read_len(slice)
        size == l.val
        sh == str_len(size) + 1
    IN  IF ~l.ok THEN LexErr(ErrReadByteString)
        ELSE IF sh + size > Len(slice) THEN LexPanic
        ELSE LexOk(TokByteString(LatinChars(Slice(slice, sh, sh + size))))

tokenize(slice) ==
    IF slice = <<>> THEN LexErr(ErrEmptySlice)
    ELSE LET byte == Head(slice)
         IN  CASE byte = DICTIONARY_BYTE -> LexOk(TokDictionary)
               [] byte = LIST_BYTE -> LexOk(TokList)
               [] byte = END_BYTE -> LexOk(TokEnd)
               [] byte = INTEGER_BYTE ->
                     LET r == read_int(Tail(slice))
                     IN  IF r.ok THEN LexOk(TokInteger(r.val)) ELSE LexErr(r.err)
               [] IsDigit(byte) -> read_byte_string(slice)
               [] OTHER -> LexErr(ErrReadFirstByte(byte))

(***************************************************************************)
(* parser.rs: the value model.  A HashMap<String, Bencode> is a function   *)
(* from a finite set of strings to values, so equality of dictionaries is  *)
(* equality of mappings, as HashMap's PartialEq is.                         *)
(***************************************************************************)
BInteger(n) == [type |-> "Integer", num |-> n]
BByteString(s) == [type |-> "ByteString", str |-> s]
BList(items) == [type |-> "List", items |-> items]
BDictionary(map) == [type |-> "Dictionary", map |-> map]
NoValue == [type |-> "None"]

EmptyMap == [k \in {} |-> NoValue]

\* an insert that keeps the value already stored under the key
insert_keep_first(dict, key, val) ==
    [k \in (DOMAIN dict) \cup {key} |-> IF k \in DOMAIN dict THEN dict[k] ELSE val]

\* HashMap::insert: the new value replaces an existing one.
insert(dict, key, val) ==
    [k \in (DOMAIN dict) \cup {key} |-> IF k = key THEN val ELSE dict[k]]

(***************************************************************************)
(* parser.rs: the recursive-descent parser.  `tokens` is the reversed      *)
(* vector built by parse; pop takes its last element.  Every function      *)
(* returns its Result together with the tokens left on the stack.          *)
(***************************************************************************)
ParseOk(v, tokens) == [ok |-> TRUE, val |-> v, err |-> "None", tokens |-> tokens]
ParseErr(e, tokens) == [ok |-> FALSE, val |-> NoValue, err |-> e, tokens |-> tokens]

Last(s) == s[Len(s)]
Front(s) == SubSeq(s, 1, Len(s) - 1)

RECURSIVE parse_token(_, _), parse_list(_, _), parse_dict(_, _)

parse_token(t, tokens) ==
    CASE t.type = "Dictionary" -> parse_dict(tokens, EmptyMap)
      [] t.type = "List" -> parse_list(tokens, <<>>)
      [] t.type = "Integer" -> ParseOk(BInteger(t.num), tokens)
      [] t.type = "ByteString" -> ParseOk(BByteString(t.str), tokens)
      [] t.type = "End" -> ParseErr("InvalidEndToken", tokens)

\* parse_list reporting the dictionary's error when the tokens run out.
parse_list_wrong_error(tokens, list) ==
    IF tokens = <<>> THEN ParseErr("NoEndDictionary", tokens)
    ELSE LET token == Last(tokens)
             rest == Front(tokens)
         IN  IF token.type = "End" THEN ParseOk(BList(list), rest)
             ELSE LET r == parse_token(token, rest)
                  IN  IF ~r.ok THEN r
                      ELSE parse_list(r.tokens, Append(list, r.val))

\* parse_list putting each new element in front of the earlier ones.
parse_list_prepend(tokens, list) ==
    IF tokens = <<>> THEN ParseErr("NoEndList", tokens)
    ELSE LET token == Last(tokens)
             rest == Front(tokens)
         IN  IF token.type = "End" THEN ParseOk(BList(list), rest)
             ELSE LET r == parse_token(token, rest)
                  IN  IF ~r.ok THEN r
                      ELSE parse_list(r.tokens, <<r.val>> \o list)

parse_list(tokens, list) ==
    IF tokens = <<>> THEN ParseErr("NoEndList", tokens)
    ELSE LET token == Last(tokens)
             rest == Front(tokens)
         IN  IF token.type = "End" THEN ParseOk(BList(list), rest)
             ELSE LET r == parse_token(token, rest)
                  IN  IF ~r.ok THEN r
                      ELSE parse_list(r.tokens, Append(list, r.val))

parse_dict(tokens, dict) ==
    IF tokens = <<>> THEN ParseErr("InvalidDictionaryKey", tokens)
    ELSE LET key == Last(tokens)
             rest == Front(tokens)
         IN  CASE key.type = "ByteString" ->
                    IF rest = <<>> THEN ParseErr("NoEndDictionary", rest)
                    ELSE LET r == parse_token(Last(rest), Front(rest))
                         IN  IF ~r.ok THEN r
                             ELSE parse_dict(r.tokens, insert(dict, key.str, r.val))
               [] key.type = "End" -> ParseOk(BDictionary(dict), rest)
               [] OTHER -> ParseErr("InvalidDictionaryKey", rest)

\* a parse that reports tokens left over after the first value
parse_reject_trailing(toks) ==
    LET stack == Reverse(toks)
        r == parse_token(Last(stack), Front(stack))
    IN  IF stack = <<>> THEN ParseErr("NoTokens", stack)
        ELSE IF r.ok /\ r.tokens # <<>> THEN ParseErr("InvalidEndToken", r.tokens)
        ELSE r

\* parser::parse
parse(toks) ==
    LET stack == Reverse(toks)
    IN  IF stack = <<>> THEN ParseErr("NoTokens", stack)
        ELSE parse_token(Last(stack), Front(stack))

(***************************************************************************)
(* parser.rs: Bencode::into_bytes.  The order in which a HashMap yields    *)
(* its entries is unspecified, so the serializer is modelled by the set of *)
(* byte strings it can produce: one per iteration order of every           *)
(* dictionary in the tree.                                                 *)
(***************************************************************************)
\* <String as Ord>::cmp: lexicographic on the UTF-8 bytes; TRUE iff a < b.
RECURSIVE BytesLess(_, _)
BytesLess(a, b) ==
    IF b = <<>> THEN FALSE
    ELSE IF a = <<>> THEN TRUE
    ELSE IF Head(a) # Head(b) THEN Head(a) < Head(b)
    ELSE BytesLess(Tail(a), Tail(b))

KeyLess(a, b) == BytesLess(Utf8(a), Utf8(b))

\* map.into_iter().collect::<Vec<_>>(): the keys in any order.
into_iter(map) ==
    LET n == Cardinality(DOMAIN map)
    IN  {s \in [1..n -> DOMAIN map] : \A i, j \in 1..n : s[i] = s[j] => i = j}

\* slice::sort_by (stable) on the key sequence, by insertion.
RECURSIVE InsertSorted(_, _)
InsertSorted(sorted, k) ==
    IF sorted = <<>> THEN <<k>>
    ELSE IF KeyLess(k, Head(sorted)) THEN <<k>> \o sorted
    ELSE <<Head(sorted)>> \o InsertSorted(Tail(sorted), k)

\* sort_by left out: the entries stay in the map's iteration order.
sort_by_unsorted(keys) == keys

RECURSIVE sort_by(_)
sort_by(keys) ==
    IF keys = <<>> THEN <<>>
    ELSE InsertSorted(sort_by(Front(keys)), Last(keys))

\* One choice from each set of a sequence of sets.
Choices(sets) ==
    {f \in [1..Len(sets) -> UNION {sets[i] : i \in 1..Len(sets)}] :
        \A i \in 1..Len(sets) : f[i] \in sets[i]}

\* format!("{}:", bytes.len())
LenHead(bytes) == Decimal(Len(bytes)) \o <<STRING_DELIMETER>>

RECURSIVE into_bytes(_)
into_bytes(v) ==
    CASE v.type = "Integer" ->
            {<<INTEGER_BYTE>> \o Decimal(v.num) \o <<END_BYTE>>}
      [] v.type = "ByteString" ->
            LET string == Utf8(v.str)
            IN  {LenHead(string) \o string}
      [] v.type = "List" ->
            {<<LIST_BYTE>> \o Flatten(elems) \o <<END_BYTE>> :
                elems \in Choices([i \in 1..Len(v.items) |-> into_bytes(v.items[i])])}
      [] v.type = "Dictionary" ->
            UNION {
                LET sorted_map == sort_by(order)
                    n == Len(sorted_map)
                IN  {<<DICTIONARY_BYTE>>
                        \o Flatten([i \in 1..n |->
                              LET key_bytes == Utf8(sorted_map[i])
                              IN  LenHead(key_bytes) \o key_bytes \o vals[i]])
                        \o <<END_BYTE>> :
                     vals \in Choices([i \in 1..n |-> into_bytes(v.map[sorted_map[i]])])}
                : order \in into_iter(v.map)}

(***************************************************************************)
(* Inputs.  Buffers are all byte strings over LexAlphabet up to MaxBufLen  *)
(* bytes, together with the buffers of the source's tests and the literals *)
(* at the edges of the integer range.  Token sequences are all sequences   *)
(* over TokenAlphabet up to MaxTokens tokens together with the sequences   *)
(* of the parser's tests.  Values are all trees of at most MaxNodes nodes  *)
(* over SampleInts, SampleStrs and the keys SampleKeys.                    *)
(***************************************************************************)
LexAlphabet ==
    {DICTIONARY_BYTE, LIST_BYTE, END_BYTE, INTEGER_BYTE, SLICE_RANGE_START,
     SLICE_RANGE_START + 1, STRING_DELIMETER, MinusSign, PlusSign, 97, 233}

SourceBuffers == {
    <<100, 51, 58, 98, 97, 114, 52, 58, 115, 112, 97, 109, 51, 58, 102, 111, 111, 105, 52, 50, 101, 101>>,    \* d3:bar4:spam3:fooi42ee
    <<105, 49, 50, 51, 52, 101>>,    \* i1234e
    <<54, 58, 97, 98, 99, 100, 101, 102, 103, 104>>,    \* 6:abcdefgh
    <<53, 58, 97, 98>>,    \* 5:ab
    <<105, 48, 48, 55, 101>>,    \* i007e
    <<105, 45, 48, 101, 49, 58, 97>>,    \* i-0e1:a
    <<48, 51, 58, 97, 98, 99>>,    \* 03:abc
    <<49, 58, 233, 101>>,    \* 1:ée
    <<105, 50, 49, 52, 55, 52, 56, 51, 54, 52, 55, 101>>,    \* i2147483647e
    <<105, 45, 50, 49, 52, 55, 52, 56, 51, 54, 52, 56, 101>>,    \* i-2147483648e
    <<105, 50, 49, 52, 55, 52, 56, 51, 54, 52, 56, 101>>,    \* i2147483648e
    <<105, 45, 50, 49, 52, 55, 52, 56, 51, 54, 52, 57, 101>>,    \* i-2147483649e
    <<105, 57, 50, 50, 51, 51, 55, 50, 48, 51, 54, 56, 53, 52, 55, 55, 53, 56, 48, 55, 101>>,    \* i9223372036854775807e
    <<108, 52, 58, 115, 112, 97, 109, 105, 52, 50, 101, 101>>    \* l4:spami42ee
    }

Buffers == (UNION {[1..n -> LexAlphabet] : n \in 0..MaxBufLen}) \cup SourceBuffers

StrA == <<97>>
StrB == <<98>>
StrAB == <<97, 98>>
StrBar == <<98, 97, 114>>
StrFoo == <<102, 111, 111>>
StrSpam == <<115, 112, 97, 109>>
StrStr == <<115, 116, 114>>
StrNested == <<110, 101, 115, 116, 101, 100>>
StrEAcute == <<233>>

TokenAlphabet ==
    {TokDictionary, TokList, TokEnd, TokInteger(1), TokInteger(2),
     TokByteString(StrA), TokByteString(StrB)}

SourceTokenSeqs == {
    <<TokList, TokInteger(55), TokByteString(StrStr), TokEnd>>,
    <<TokList, TokInteger(55), TokList, TokByteString(StrStr), TokEnd, TokEnd>>,
    <<TokDictionary, TokByteString(StrBar), TokByteString(StrSpam),
      TokByteString(StrFoo), TokInteger(42), TokEnd>>,
    <<TokDictionary, TokByteString(StrBar), TokByteString(StrSpam),
      TokByteString(StrFoo), TokDictionary, TokByteString(StrNested),
      TokInteger(-123), TokEnd, TokEnd>>
    }

TokenSeqs ==
    (UNION {[1..n -> TokenAlphabet] : n \in 0..MaxTokens}) \cup SourceTokenSeqs

SampleInts == {0, -12, 305}
SampleStrs == {StrA, StrEAcute}
SampleKeys == {StrA, StrAB, StrB}

Atoms == {BInteger(n) : n \in SampleInts} \cup {BByteString(x) : x \in SampleStrs}

RECURSIVE Size(_), SizeSeq(_), SizeMap(_, _)
\* number of nodes of a value tree
Size(v) ==
    CASE v.type = "List" -> 1 + SizeSeq(v.items)
      [] v.type = "Dictionary" -> 1 + SizeMap(v.map, DOMAIN v.map)
      [] OTHER -> 1

SizeSeq(items) ==
    IF items = <<>> THEN 0 ELSE Size(Head(items)) + SizeSeq(Tail(items))

SizeMap(map, keys) ==
    IF keys = {} THEN 0
    ELSE LET k == CHOOSE x \in keys : TRUE
         IN  Size(map[k]) + SizeMap(map, keys \ {k})

RECURSIVE Trees(_)
\* all value trees of at most n nodes
Trees(n) ==
    IF n < 1 THEN {}
    ELSE Atoms
         \cup {BList(<<>>), BDictionary(EmptyMap)}
         \cup {BList(items) : items \in UNION {
                  {x \in [1..k -> Trees(n - k)] : Size(BList(x)) <= n} : k \in 1..(n - 1)}}
         \cup {BDictionary(map) : map \in UNION {
                  {f \in [K -> Trees(n - Cardinality(K))] : Size(BDictionary(f)) <= n} :
                  K \in {X \in SUBSET SampleKeys : X # {} /\ Cardinality(X) <= n - 1}}}

Values == Trees(MaxNodes)

(***************************************************************************)
(* The state machine.  pc is the stage that runs next: Bencode::into_bytes *)
(* on value, the loop of lexer::parse on slice (index and ret are its      *)
(* locals, lexed its return), parser::parse on tokens (parsed its return). *)
(***************************************************************************)
VARIABLES pc, value, slice, index, ret, lexed, tokens, parsed

vars == <<pc, value, slice, index, ret, lexed, tokens, parsed>>

Pending == [kind |-> "None", err |-> NoError]
NotParsed == [ok |-> FALSE, val |-> NoValue, err |-> "Pending", tokens |-> <<>>]

InitCodec ==
    /\ pc = "into_bytes"
    /\ value \in Values
    /\ slice = <<>>
    /\ index = 0
    /\ ret = <<>>
    /\ lexed = Pending
    /\ tokens = <<>>
    /\ parsed = NotParsed

InitDecode ==
    /\ pc = "lexer"
    /\ value = NoValue
    /\ slice \in Buffers
    /\ index = 0
    /\ ret = <<>>
    /\ lexed = Pending
    /\ tokens = <<>>
    /\ parsed = NotParsed

InitParser ==
    /\ pc = "parser"
    /\ value = NoValue
    /\ slice = <<>>
    /\ index = 0
    /\ ret = <<>>
    /\ lexed = Pending
    /\ tokens \in TokenSeqs
    /\ parsed = NotParsed

\* value.into_bytes(), handed to the lexer
IntoBytes ==
    /\ pc = "into_bytes"
    /\ \E bytes \in into_bytes(value) : slice' = bytes
    /\ pc' = "lexer"
    /\ UNCHANGED <<value, index, ret, lexed, tokens, parsed>>

\* &slice[index..] of the loop in lexer::parse (index <= len)
Remaining == Slice(slice, index, Len(slice))

\* one iteration of the loop: Ok(token)
LexerPush ==
    /\ pc = "lexer"
    /\ index <= Len(slice)
    /\ tokenize(Remaining).kind = "Ok"
    /\ index' = index + shift(tokenize(Remaining).token)
    /\ ret' = Append(ret, tokenize(Remaining).token)
    /\ UNCHANGED <<pc, value, slice, lexed, tokens, parsed>>

\* Err(Error::EmptySlice) => break Ok(ret); the tokens go to the parser
LexerBreakOk ==
    /\ pc = "lexer"
    /\ index <= Len(slice)
    /\ tokenize(Remaining) = LexErr(ErrEmptySlice)
    /\ lexed' = [kind |-> "Ok", err |-> NoError]
    /\ tokens' = ret
    /\ pc' = "parser"
    /\ UNCHANGED <<value, slice, index, ret, parsed>>

\* Err(err) => break Err(err)
LexerBreakErr ==
    /\ pc = "lexer"
    /\ index <= Len(slice)
    /\ tokenize(Remaining).kind = "Err"
    /\ tokenize(Remaining).err # ErrEmptySlice
    /\ lexed' = [kind |-> "Err", err |-> tokenize(Remaining).err]
    /\ pc' = "done"
    /\ UNCHANGED <<value, slice, index, ret, tokens, parsed>>

\* a slice index out of range: &slice[index..] in parse with index > len,
\* or &slice[shift..shift + size] in read_byte_string
LexerPanic ==
    /\ pc = "lexer"
    /\ \/ index > Len(slice)
       \/ index <= Len(slice) /\ tokenize(Remaining).kind = "Panic"
    /\ lexed' = [kind |-> "Panic", err |-> NoError]
    /\ pc' = "done"
    /\ UNCHANGED <<value, slice, index, ret, tokens, parsed>>

\* parser::parse(tokens)
ParserParse ==
    /\ pc = "parser"
    /\ parsed' = parse(tokens)
    /\ pc' = "done"
    /\ UNCHANGED <<value, slice, index, ret, lexed, tokens>>

NextCodec ==
    \/ IntoBytes
    \/ LexerPush
    \/ LexerBreakOk
    \/ LexerBreakErr
    \/ LexerPanic
    \/ ParserParse

NextDecode ==
    \/ LexerPush
    \/ LexerBreakOk
    \/ LexerBreakErr
    \/ LexerPanic
    \/ ParserParse

NextParser == ParserParse

SpecCodec == InitCodec /\ [][NextCodec]_vars
SpecDecode == InitDecode /\ [][NextDecode]_vars
SpecParser == InitParser /\ [][NextParser]_vars

(***************************************************************************)
(* Reference definitions used by the properties.  They are written from    *)
(* the bencode grammar, not from the code.                                 *)
(***************************************************************************)
\* number of leading ASCII digits of s
LeadingDigits(s) ==
    CHOOSE n \in 0..Len(s) :
        /\ \A i \in 1..n : IsDigit(s[i])
        /\ n = Len(s) \/ ~IsDigit(s[n + 1])

RECURSIVE NatOf(_)
\* the number written by a non-empty run of digits
NatOf(digits) ==
    IF Len(digits) = 1 THEN Head(digits) - SLICE_RANGE_START
    ELSE NatOf(Front(digits)) * 10 + (Last(digits) - SLICE_RANGE_START)

\* s starts with digits, ':' and then fewer bytes than the digits declare
TruncatedByteString(s) ==
    LET n == LeadingDigits(s)
    IN  /\ n >= 1
        /\ n < Len(s)
        /\ s[n + 1] = STRING_DELIMETER
        /\ Len(s) - (n + 1) < NatOf(SubSeq(s, 1, n))

\* s starts with a digit but what precedes the first ':' is not a run of
\* digits, or no ':' follows the digits
MalformedLength(s) ==
    LET n == LeadingDigits(s)
    IN  /\ n >= 1
        /\ n = Len(s) \/ s[n + 1] # STRING_DELIMETER

\* an optional '-' followed by one or more digits
IntegerText(b) ==
    LET d == IF b # <<>> /\ Head(b) = MinusSign THEN Tail(b) ELSE b
    IN  d # <<>> /\ \A i \in 1..Len(d) : IsDigit(d[i])

\* s starts with 'i' and is not followed by an integer text and an 'e'
InvalidInteger(s) ==
    /\ s # <<>>
    /\ Head(s) = INTEGER_BYTE
    /\ LET t == Tail(s)
           ends == {i \in 1..Len(t) : t[i] = END_BYTE}
       IN  ends = {} \/ ~IntegerText(SubSeq(t, 1, Min(ends) - 1))

\* the decimal digits of i64::MAX
I64MaxDigits == <<57, 50, 50, 51, 51, 55, 50, 48, 51, 54, 56, 53, 52, 55, 55, 53, 56, 48, 55>>

\* d is the canonical decimal text of a number between 0 and 2^63 - 1
I64Magnitude(d) ==
    /\ d # <<>>
    /\ \A i \in 1..Len(d) : IsDigit(d[i])
    /\ Len(d) > 1 => Head(d) # SLICE_RANGE_START
    /\ \/ Len(d) < Len(I64MaxDigits)
       \/ Len(d) = Len(I64MaxDigits) /\ ~BytesLess(I64MaxDigits, d)

\* s is 'i' + decimal(n) + 'e' for an n with -(2^63 - 1) <= n <= 2^63 - 1
I64Literal(s) ==
    /\ Len(s) >= 3
    /\ Head(s) = INTEGER_BYTE
    /\ Last(s) = END_BYTE
    /\ LET b == SubSeq(s, 2, Len(s) - 1)
       IN  \/ I64Magnitude(b)
           \/ Head(b) = MinusSign /\ I64Magnitude(Tail(b)) /\ Tail(b) # <<SLICE_RANGE_START>>

\* the bytes the single-token reader took for the token it returned on s:
\* the marker byte; 'i', the text and its 'e'; the prefix, ':' and payload
Consumed(s) ==
    LET t == tokenize(s).token
    IN  CASE t.type = "Integer" ->
                LET ends == {i \in 2..Len(s) : s[i] = END_BYTE}
                IN  IF ends = {} THEN Len(s) ELSE Min(ends)
          [] t.type = "ByteString" ->
                LET colons == {i \in 1..Len(s) : s[i] = STRING_DELIMETER}
                IN  Min(colons) + Len(t.str)
          [] OTHER -> 1

(***************************************************************************)
(* The containers left open when a token sequence runs out: a left-to-     *)
(* right scan with a stack of frames, "L" for an open list, "DK" for an    *)
(* open dictionary that expects a key or its End, "DV" for an open         *)
(* dictionary that expects a value.                                        *)
(***************************************************************************)
\* the stack after a value has been completed inside its top frame
ValueDone(stack) ==
    IF stack # <<>> /\ Last(stack) = "DV" THEN Append(Front(stack), "DK") ELSE stack

RECURSIVE ScanFrom(_, _, _)
ScanFrom(toks, i, stack) ==
    IF i > Len(toks) THEN [status |-> "exhausted", stack |-> stack]
    ELSE LET t == toks[i].type
             top == Last(stack)
         IN  CASE top = "DK" /\ t = "ByteString" ->
                    ScanFrom(toks, i + 1, Append(Front(stack), "DV"))
               [] top = "DK" /\ t \notin {"ByteString", "End"} ->
                    [status |-> "error", stack |-> stack]
               [] top = "DV" /\ t = "End" ->
                    [status |-> "error", stack |-> stack]
               [] top \in {"DK", "L"} /\ t = "End" ->
                    IF Len(stack) = 1 THEN [status |-> "complete", stack |-> <<>>]
                    ELSE ScanFrom(toks, i + 1, ValueDone(Front(stack)))
               [] top \in {"DV", "L"} /\ t \in {"Integer", "ByteString"} ->
                    ScanFrom(toks, i + 1, ValueDone(stack))
               [] top \in {"DV", "L"} /\ t = "List" ->
                    ScanFrom(toks, i + 1, Append(stack, "L"))
               [] top \in {"DV", "L"} /\ t = "Dictionary" ->
                    ScanFrom(toks, i + 1, Append(stack, "DK"))

Scan(toks) ==
    IF toks = <<>> THEN [status |-> "empty", stack |-> <<>>]
    ELSE CASE toks[1].type = "List" -> ScanFrom(toks, 2, <<"L">>)
           [] toks[1].type = "Dictionary" -> ScanFrom(toks, 2, <<"DK">>)
           [] toks[1].type = "End" -> [status |-> "error", stack |-> <<>>]
           [] OTHER -> [status |-> "complete", stack |-> <<>>]

\* the tokens run out while the innermost open container is of kind frames
ExhaustedIn(toks, frames) ==
    /\ Scan(toks).status = "exhausted"
    /\ Last(Scan(toks).stack) \in frames

\* the canonical encoding: dictionary entries by ascending key
RECURSIVE Canonical(_), CanonicalSeq(_), CanonicalMap(_, _)
Canonical(v) ==
    CASE v.type = "Integer" -> <<INTEGER_BYTE>> \o Decimal(v.num) \o <<END_BYTE>>
      [] v.type = "ByteString" ->
            Decimal(Len(Utf8(v.str))) \o <<STRING_DELIMETER>> \o Utf8(v.str)
      [] v.type = "List" -> <<LIST_BYTE>> \o CanonicalSeq(v.items) \o <<END_BYTE>>
      [] v.type = "Dictionary" ->
            <<DICTIONARY_BYTE>> \o CanonicalMap(v.map, DOMAIN v.map) \o <<END_BYTE>>

CanonicalSeq(items) ==
    IF items = <<>> THEN <<>>
    ELSE Canonical(Head(items)) \o CanonicalSeq(Tail(items))

CanonicalMap(map, keys) ==
    IF keys = {} THEN <<>>
    ELSE LET least == CHOOSE k \in keys :
                         \A o \in keys \ {k} : BytesLess(Utf8(k), Utf8(o))
         IN  Canonical(BByteString(least)) \o Canonical(map[least])
                \o CanonicalMap(map, keys \ {least})

(***************************************************************************)
(* The extent of a value in a token sequence, by counting openers and End  *)
(* tokens, and the entries of a well-formed dictionary.                    *)
(***************************************************************************)
RECURSIVE CloseAt(_, _, _)
\* the position of the End that closes the container open at depth `depth`
\* before position j (0 when there is none)
CloseAt(toks, j, depth) ==
    IF j > Len(toks) THEN 0
    ELSE CASE toks[j].type \in {"List", "Dictionary"} -> CloseAt(toks, j + 1, depth + 1)
           [] toks[j].type = "End" ->
                 IF depth = 1 THEN j ELSE CloseAt(toks, j + 1, depth - 1)
           [] OTHER -> CloseAt(toks, j + 1, depth)

\* the position of the last token of the value that starts at position i
ValueEnd(toks, i) ==
    IF toks[i].type \in {"List", "Dictionary"} THEN CloseAt(toks, i + 1, 1) ELSE i

\* s is exactly one well-formed value
WellFormedValue(s) ==
    /\ Scan(s).status = "complete"
    /\ ValueEnd(s, 1) = Len(s)

RECURSIVE DictEntries(_, _)
\* the entries of a well-formed dictionary from position i on: each key
\* with the extent of the value tokens that follow it
DictEntries(toks, i) ==
    IF toks[i].type = "End" THEN <<>>
    ELSE <<[key |-> toks[i].str, from |-> i + 1, to |-> ValueEnd(toks, i + 1)]>>
            \o DictEntries(toks, ValueEnd(toks, i + 1) + 1)

\* the tokens of the value that follows the last occurrence of key k
LastValueTokens(toks, k) ==
    LET es == DictEntries(toks, 2)
        last == CHOOSE i \in 1..Len(es) :
                    /\ es[i].key = k
                    /\ \A j \in (i + 1)..Len(es) : es[j].key # k
    IN  SubSeq(toks, es[last].from, es[last].to)

RECURSIVE ListElements(_, _)
\* the extents of the top-level elements of a well-formed list from
\* position i on
ListElements(toks, i) ==
    IF toks[i].type = "End" THEN <<>>
    ELSE <<[from |-> i, to |-> ValueEnd(toks, i)]>>
            \o ListElements(toks, ValueEnd(toks, i) + 1)

\* d is a decimal numeral without sign and without leading zeros
PlainNumeral(d) ==
    /\ d # <<>>
    /\ \A i \in 1..Len(d) : IsDigit(d[i])
    /\ Len(d) > 1 => Head(d) # SLICE_RANGE_START

\* b is 'i' + decimal(n) + 'e': a '-' exactly when n is negative, then the
\* numeral of the magnitude of n
IntegerEncoding(b, n) ==
    /\ Len(b) >= 3
    /\ Head(b) = INTEGER_BYTE
    /\ Last(b) = END_BYTE
    /\ LET body == SubSeq(b, 2, Len(b) - 1)
       IN  IF n < 0
           THEN /\ Head(body) = MinusSign
                /\ PlainNumeral(Tail(body))
                /\ NatOf(Tail(body)) = -n
           ELSE /\ PlainNumeral(body)
                /\ NatOf(body) = n

\* b is the decimal byte length of str, ':' and the bytes of str
ByteStringEncoding(b, str) ==
    LET n == LeadingDigits(b)
    IN  /\ n >= 1
        /\ n < Len(b)
        /\ b[n + 1] = STRING_DELIMETER
        /\ PlainNumeral(SubSeq(b, 1, n))
        /\ NatOf(SubSeq(b, 1, n)) = Len(b) - (n + 1)
        /\ SubSeq(b, n + 2, Len(b)) = Utf8(str)

(***************************************************************************)
(* Properties.                                                             *)
(***************************************************************************)

\* C1: decoding the encoding of a value tree succeeds and yields the value:
\* when the pipeline into_bytes, lexer::parse, parser::parse has run, the
\* lexer returned Ok, the parser returned Ok, and the parsed value equals
\* the encoded one (dictionaries compared as mappings).
C1_RoundTrip ==
    pc = "done" => /\ lexed.kind = "Ok"
                   /\ parsed.ok
                   /\ parsed.val = value

\* into_bytes has just returned: slice holds its result and the lexer has
\* not started (no later step changes value or slice)
Encoded == pc = "lexer" /\ index = 0 /\ value # NoValue

\* C2: the bytes produced for a value are its canonical encoding, with the
\* entries of every dictionary, at every level, emitted once each in
\* ascending byte order of their keys, whatever order the map yields them in.
C2_CanonicalOrder ==
    Encoded =>
        /\ slice = Canonical(value)
        /\ into_bytes(value) = {Canonical(value)}

\* C2 witness: a dictionary of at least two keys holding a nested
\* dictionary has been encoded.
C2_Witness ==
    /\ pc = "lexer"
    /\ index = 0
    /\ value.type = "Dictionary"
    /\ Cardinality(DOMAIN value.map) >= 2
    /\ \E k \in DOMAIN value.map :
          /\ value.map[k].type = "Dictionary"
          /\ value.map[k].map # EmptyMap

\* C3: when the token at the cursor is a length prefix N and ':' followed
\* by fewer than N bytes, the loop iteration returns Err(ReadByteString)
\* (and so does not panic).
C3_Truncated ==
    [][(pc = "lexer" /\ index <= Len(slice) /\ TruncatedByteString(Remaining))
          => lexed' = [kind |-> "Err", err |-> ErrReadByteString]]_vars

\* C4: when the token at the cursor starts with 'i' and is not followed by
\* an optional '-', one or more digits and an 'e', the loop iteration
\* returns Err(ReadInt).
C4_InvalidInteger ==
    [][(pc = "lexer" /\ index <= Len(slice) /\ InvalidInteger(Remaining))
          => lexed' = [kind |-> "Err", err |-> ErrReadInt]]_vars

\* C5: when the token at the cursor starts with a digit and its length
\* prefix is malformed, the loop iteration returns Err(ReadLen).
C5_InvalidLength ==
    [][(pc = "lexer" /\ index <= Len(slice) /\ MalformedLength(Remaining))
          => lexed' = [kind |-> "Err", err |-> ErrReadLen]]_vars

\* C6: when the tokens run out while the parser is building a dictionary
\* (at a key or at a value), parsing fails with NoEndDictionary.
C6_UnterminatedDictionary ==
    (pc = "done" /\ ExhaustedIn(tokens, {"DK", "DV"})) =>
        (~parsed.ok /\ parsed.err = "NoEndDictionary")

\* C7 as stated: every token sequence that starts with List-open and runs
\* out before that list's End is consumed fails with NoEndList.
C7_UnterminatedList_Original ==
    (pc = "done" /\ tokens # <<>> /\ tokens[1].type = "List"
        /\ Scan(tokens).status = "exhausted") =>
        (~parsed.ok /\ parsed.err = "NoEndList")

\* C7 as amended: every token sequence that starts with List-open and
\* runs out while the innermost open container is a list fails with
\* NoEndList.
C7_UnterminatedList ==
    (pc = "done" /\ tokens # <<>> /\ tokens[1].type = "List"
        /\ ExhaustedIn(tokens, {"L"})) =>
        (~parsed.ok /\ parsed.err = "NoEndList")

\* C7 witness: a sequence starting with List-open ran out inside a list
\* nested in the outer one, and the parser has returned.
C7_Witness ==
    /\ pc = "done"
    /\ parsed.err = "NoEndList"
    /\ tokens # <<>> /\ tokens[1].type = "List"
    /\ ExhaustedIn(tokens, {"L"})
    /\ Len(Scan(tokens).stack) >= 2

\* C8: a buffer 'i' + decimal(n) + 'e' with n in the signed 64-bit range
\* tokenizes to the single token Integer(n) and decodes to Integer(n).
C8_IntegerWidth ==
    (pc = "done" /\ value = NoValue /\ I64Literal(slice)) =>
        /\ lexed.kind = "Ok"
        /\ Len(tokens) = 1
        /\ tokens[1].type = "Integer"
        /\ Decimal(tokens[1].num) = SubSeq(slice, 2, Len(slice) - 1)
        /\ parsed.ok
        /\ parsed.val = BInteger(tokens[1].num)

\* C9: whenever a loop iteration pushes the token the single-token reader
\* returned, the cursor advance computed by Token::shift equals the number
\* of bytes the reader took for that token.
C9_ShiftEqualsConsumption ==
    [][(pc = "lexer" /\ ret' # ret) => index' - index = Consumed(Remaining)]_vars

\* C10: the loop of lexer::parse ends by returning the tokens or a decode
\* error, and the cursor never exceeds the length of the buffer.
C10_LexerTermination ==
    /\ index <= Len(slice)
    /\ lexed.kind # "Panic"

\* C11: for a well-formed token sequence Dictionary-open, (key, value
\* tokens)*, End, the parser returns a dictionary whose key set is the set
\* of the key tokens and that maps every key to the value parsed from the
\* tokens that follow its last occurrence; all tokens are consumed.
C11_DictionaryParsing ==
    (pc = "done" /\ tokens # <<>> /\ tokens[1].type = "Dictionary"
        /\ WellFormedValue(tokens)) =>
        /\ parsed.ok
        /\ parsed.val.type = "Dictionary"
        /\ parsed.tokens = <<>>
        /\ LET es == DictEntries(tokens, 2)
           IN  /\ DOMAIN parsed.val.map = {es[i].key : i \in 1..Len(es)}
               /\ \A k \in DOMAIN parsed.val.map :
                     /\ parse(LastValueTokens(tokens, k)).ok
                     /\ parsed.val.map[k] = parse(LastValueTokens(tokens, k)).val

\* C11 witness: a dictionary whose tokens repeat a key with two different
\* values has been parsed.
C11_Witness ==
    /\ pc = "done"
    /\ parsed.ok
    /\ tokens[1].type = "Dictionary"
    /\ WellFormedValue(tokens)
    /\ LET es == DictEntries(tokens, 2)
       IN  \E i, j \in 1..Len(es) :
              /\ i < j
              /\ es[i].key = es[j].key
              /\ SubSeq(tokens, es[i].from, es[i].to) # SubSeq(tokens, es[j].from, es[j].to)

\* C12: for a well-formed token sequence List-open, elements, End, the
\* parser returns a list with one value per top-level element, in token
\* order, each parsed from exactly the tokens of that element (a nested
\* container takes the tokens up to its own End); all tokens are consumed.
C12_ListOrder ==
    (pc = "done" /\ tokens # <<>> /\ tokens[1].type = "List"
        /\ WellFormedValue(tokens)) =>
        /\ parsed.ok
        /\ parsed.val.type = "List"
        /\ parsed.tokens = <<>>
        /\ LET els == ListElements(tokens, 2)
           IN  /\ Len(parsed.val.items) = Len(els)
               /\ \A i \in 1..Len(els) :
                     /\ parse(SubSeq(tokens, els[i].from, els[i].to)).ok
                     /\ parsed.val.items[i] =
                           parse(SubSeq(tokens, els[i].from, els[i].to)).val

\* C12 witness: a list whose first element is a non-empty nested list and
\* whose second element is a different value has been parsed.
C12_Witness ==
    /\ pc = "done"
    /\ parsed.ok
    /\ parsed.val.type = "List"
    /\ WellFormedValue(tokens)
    /\ Len(parsed.val.items) = 2
    /\ parsed.val.items[1].type = "List"
    /\ parsed.val.items[1].items # <<>>
    /\ parsed.val.items[2] \notin {parsed.val.items[1].items[i] :
                                      i \in 1..Len(parsed.val.items[1].items)}

\* C13: every value tree is encoded (into_bytes yields bytes for it); the
\* bytes of Integer(n) are 'i', the plain decimal numeral of n with a '-'
\* only when n is negative, 'e'; the bytes of a byte-string are its decimal
\* byte length, ':' and its bytes; the bytes of a list are 'l', the
\* encodings of its elements in the list's order, 'e'.
C13_ScalarAndListSerialization ==
    /\ pc = "into_bytes" => into_bytes(value) # {}
    /\ Encoded =>
          /\ slice # <<>>
          /\ value.type = "Integer" => IntegerEncoding(slice, value.num)
          /\ value.type = "ByteString" => ByteStringEncoding(slice, value.str)
          /\ value.type = "List" =>
                slice = <<LIST_BYTE>> \o CanonicalSeq(value.items) \o <<END_BYTE>>

\* C13 witness: a list of at least two different elements, one of them a
\* negative integer, has been encoded.
C13_Witness ==
    /\ pc = "lexer"
    /\ index = 0
    /\ value.type = "List"
    /\ Len(value.items) >= 2
    /\ value.items[1] # value.items[2]
    /\ \E i \in 1..Len(value.items) :
          value.items[i].type = "Integer" /\ value.items[i].num < 0

\* C14: parse returns the first complete value and leaves the tokens after
\* it untouched: whenever a prefix of the token sequence parses to a value,
\* the whole sequence parses to the same value without error, and when a
\* prefix is exactly one well-formed value the tokens left on the stack are
\* all the tokens after that prefix.
C14_TrailingTokensIgnored ==
    pc = "done" =>
        \A k \in 1..Len(tokens) :
            LET prefix == SubSeq(tokens, 1, k)
                r == parse(prefix)
            IN  /\ r.ok => (parsed.ok /\ parsed.val = r.val)
                /\ WellFormedValue(prefix) =>
                      /\ parsed.ok
                      /\ parsed.tokens = Reverse(SubSeq(tokens, k + 1, Len(tokens)))

\* C14 witness: a sequence with tokens after its first complete container,
\* a stray End among them, has been parsed.
C14_Witness ==
    /\ pc = "done"
    /\ parsed.ok
    /\ parsed.val.type \in {"List", "Dictionary"}
    /\ Len(parsed.tokens) >= 2
    /\ \E i \in 1..Len(parsed.tokens) : parsed.tokens[i].type = "End"

====
